---------------------------- MODULE Spec2Model ----------------------------
(***************************************************************************)
(* A model of the SBWT index of src/include/SBWT.hh: the index container   *)
(* (construction from precomputed bit vectors, serialize, load) and its    *)
(* two queries, search and streaming_search.                               *)
(*                                                                         *)
(* Characters are one-character strings, C strings and std::strings are    *)
(* sequences of characters, bit vectors are sequences of 0/1.  The code    *)
(* indexes from 0 and TLA+ sequences from 1: a column number, a loop       *)
(* counter or a rank position keeps the code's value and every sequence    *)
(* access adds 1.                                                          *)
(***************************************************************************)
EXTENDS Integers, Sequences, FiniteSets

(***************************************************************************)
(* Bounds of the model.                                                    *)
(***************************************************************************)
\* the largest size of the arbitrary k-mer sets indexes are built over
MaxKmers == 1
\* the longest of the arbitrary inputs handed to streaming_search
MaxLen == 3

\* the k of the indexes built over arbitrary small k-mer sets
SmallK == {2}

DNA == <<"A", "C", "G", "T">>
DNASet == {"A", "C", "G", "T"}
\* the characters an input is drawn from: the alphabet, a lower-case
\* letter and a character that is no nucleotide in either case
InputChars == {"A", "C", "G", "T", "a", "N"}

(***************************************************************************)
(* Strings.                                                                *)
(***************************************************************************)
Strings(S, n) == [1..n -> S]

StringsUpTo(S, n) == UNION {Strings(S, m) : m \in 0..n}

Rev(s) == [j \in 1..Len(s) |-> s[Len(s) + 1 - j]]

\* toupper of <cctype>, on the characters of the model
toupper(c) ==
  CASE c = "a" -> "A"
    [] c = "c" -> "C"
    [] c = "g" -> "G"
    [] c = "t" -> "T"
    [] OTHER -> c

Upper(s) == [j \in 1..Len(s) |-> toupper(s[j])]

(***************************************************************************)
(* The subset rank structure (template parameter subset_rank_t): the four  *)
(* bit vectors, and rank(pos, c) = the number of columns in [0, pos) whose *)
(* subset holds c.  A symbol outside A, C, G, T is in no subset.           *)
(***************************************************************************)
subset_rank_t(A_bits, C_bits, G_bits, T_bits) ==
  [A |-> A_bits, C |-> C_bits, G |-> G_bits, T |-> T_bits]

Ones(bits, pos) == Cardinality({j \in 1..pos : bits[j] = 1})

rank(sr, pos, c) ==
  CASE c = "A" -> Ones(sr.A, pos)
    [] c = "C" -> Ones(sr.C, pos)
    [] c = "G" -> Ones(sr.G, pos)
    [] c = "T" -> Ones(sr.T, pos)
    [] OTHER -> 0

(***************************************************************************)
(* SBWT(): the default-constructed index.                                  *)
(***************************************************************************)
SBWT_default ==
  [colex |-> TRUE,
   subset_rank |-> subset_rank_t(<<>>, <<>>, <<>>, <<>>),
   suffix_group_starts |-> <<>>,
   C |-> <<>>,
   n_nodes |-> 0,
   k |-> 0,
   n_kmers |-> 0]

(***************************************************************************)
(* SBWT(A_bits, C_bits, G_bits, T_bits, streaming_support, k, n_kmers,     *)
(* colex): construction from precomputed data.                             *)
(***************************************************************************)
\* a slip in the last line: the count of 'C' added where that of 'G' belongs
C_array_RepeatedCount(sr, n_nodes) ==
  LET C0 == 1
      C1 == C0 + rank(sr, n_nodes, "A")
      C2 == C1 + rank(sr, n_nodes, "C")
      C3 == C2 + rank(sr, n_nodes, "C")
  IN  <<C0, C1, C2, C3>>

C_array(sr, n_nodes) ==
  LET C0 == 1
      C1 == C0 + rank(sr, n_nodes, "A")
      C2 == C1 + rank(sr, n_nodes, "C")
      C3 == C2 + rank(sr, n_nodes, "G")
  IN  <<C0, C1, C2, C3>>

SBWT_precomputed(A_bits, C_bits, G_bits, T_bits, streaming_support, k, n_kmers, colex) ==
  LET sr == subset_rank_t(A_bits, C_bits, G_bits, T_bits)
  IN  [colex |-> colex,
       subset_rank |-> sr,
       suffix_group_starts |-> streaming_support,
       C |-> C_array(sr, Len(A_bits)),
       n_nodes |-> Len(A_bits),
       k |-> k,
       n_kmers |-> n_kmers]

(***************************************************************************)
(* The construction of the precomputed data from a k-mer set (the          *)
(* external builder).  A lex index is the colex structure of the reversed  *)
(* k-mers.  The columns are the k-mers and, for every k-mer no other k-mer *)
(* leads to, its proper prefixes padded with "$" (down to the root), in    *)
(* colex order; the outgoing characters of the columns that share a        *)
(* (k-1)-suffix are stored on the first column of that suffix group.       *)
(***************************************************************************)
Ord(c) ==
  CASE c = "$" -> 0
    [] c = "A" -> 1
    [] c = "C" -> 2
    [] c = "G" -> 3
    [] c = "T" -> 4

ColexLess(x, y) ==
  \E j \in 1..Len(x) :
    /\ Ord(x[j]) < Ord(y[j])
    /\ \A m \in (j + 1)..Len(x) : x[m] = y[m]

Oriented(K, colex) == IF colex THEN K ELSE {Rev(x) : x \in K}

HasPredecessor(x, R) ==
  \E y \in R : SubSeq(y, 2, Len(y)) = SubSeq(x, 1, Len(x) - 1)

\* "$" k-j times, then the first j characters of x
Padded(x, j) ==
  [m \in 1..Len(x) |-> IF m <= Len(x) - j THEN "$" ELSE x[m - (Len(x) - j)]]

Root(k) == [m \in 1..k |-> "$"]

NodeSet(R, k) ==
  R \cup {Root(k)}
    \cup {Padded(x, j) : x \in {r \in R : ~HasPredecessor(r, R)}, j \in 0..(k - 1)}

ColumnOf(nodes, v) == Cardinality({u \in nodes : ColexLess(u, v)})

NodeOrder(nodes) ==
  [col \in 1..Cardinality(nodes) |->
     CHOOSE v \in nodes : ColumnOf(nodes, v) = col - 1]

KSuffix(v) == SubSeq(v, 2, Len(v))

GroupStarts(order) ==
  [col \in 1..Len(order) |->
     IF col = 1 \/ KSuffix(order[col]) # KSuffix(order[col - 1]) THEN 1 ELSE 0]

Bits(order, nodes, c) ==
  [col \in 1..Len(order) |->
     IF /\ GroupStarts(order)[col] = 1
        /\ Append(KSuffix(order[col]), c) \in nodes
     THEN 1 ELSE 0]

Build(K, k, colex, build_streaming_support) ==
  LET nodes == NodeSet(Oriented(K, colex), k)
      order == NodeOrder(nodes)
  IN  SBWT_precomputed(Bits(order, nodes, "A"), Bits(order, nodes, "C"),
                       Bits(order, nodes, "G"), Bits(order, nodes, "T"),
                       IF build_streaming_support THEN GroupStarts(order) ELSE <<>>,
                       k, Cardinality(K), colex)

\* the column of k-mer x in the index built over K (ghost: the builder's order)
BuiltColumn(K, k, colex, x) ==
  ColumnOf(NodeSet(Oriented(K, colex), k), IF colex THEN x ELSE Rev(x))


(***************************************************************************)
(* search(const char* kmer).  S is the buffer and off the offset in it the *)
(* pointer kmer points at.  SearchIter is one iteration of the loop: the   *)
(* early returns of -1 (invalid character, node_left > node_right) and the *)
(* new node_left, node_right; rank_c is the symbol handed to rank.         *)
(***************************************************************************)
search_char_idx(uc) ==
  CASE uc = "A" -> 0
    [] uc = "C" -> 1
    [] uc = "G" -> 2
    [] uc = "T" -> 3
    [] OTHER -> -1

\* a slip: the k-mer read left to right whatever the order of the index
SearchChar_Forward(ix, S, off, i) == S[off + i + 1]

SearchChar(ix, S, off, i) ==
  IF ix.colex THEN S[off + i + 1] ELSE S[off + (ix.k - 1 - i) + 1]

\* a slip: an invalid character is skipped instead of ending the search
SearchIter_SkipInvalid(ix, S, off, i, node_left, node_right) ==
  LET c == SearchChar(ix, S, off, i)
      char_idx == search_char_idx(toupper(c))
  IN  IF char_idx = -1
      THEN [returned |-> FALSE, invalid |-> TRUE, rank_c |-> <<>>,
            node_left |-> node_left, node_right |-> node_right]
      ELSE LET nl == ix.C[char_idx + 1] + rank(ix.subset_rank, node_left, c)
               nr == ix.C[char_idx + 1] + rank(ix.subset_rank, node_right + 1, c) - 1
           IN  [returned |-> nl > nr, invalid |-> FALSE, rank_c |-> <<c>>,
                node_left |-> nl, node_right |-> nr]

\* a slip: the return on an empty range (node_left > node_right) left out
SearchIter_NoEmptyCheck(ix, S, off, i, node_left, node_right) ==
  LET c == SearchChar(ix, S, off, i)
      char_idx == search_char_idx(toupper(c))
  IN  IF char_idx = -1
      THEN [returned |-> TRUE, invalid |-> TRUE, rank_c |-> <<>>,
            node_left |-> node_left, node_right |-> node_right]
      ELSE LET nl == ix.C[char_idx + 1] + rank(ix.subset_rank, node_left, c)
               nr == ix.C[char_idx + 1] + rank(ix.subset_rank, node_right + 1, c) - 1
           IN  [returned |-> FALSE, invalid |-> FALSE, rank_c |-> <<c>>,
                node_left |-> nl, node_right |-> nr]

SearchIter(ix, S, off, i, node_left, node_right) ==
  LET c == SearchChar(ix, S, off, i)
      char_idx == search_char_idx(toupper(c))
  IN  IF char_idx = -1
      THEN [returned |-> TRUE, invalid |-> TRUE, rank_c |-> <<>>,
            node_left |-> node_left, node_right |-> node_right]
      ELSE LET nl == ix.C[char_idx + 1] + rank(ix.subset_rank, node_left, c)
               nr == ix.C[char_idx + 1] + rank(ix.subset_rank, node_right + 1, c) - 1
           IN  [returned |-> nl > nr, invalid |-> FALSE, rank_c |-> <<c>>,
                node_left |-> nl, node_right |-> nr]

\* after the loop: exit(1) when node_left != node_right, else return node_left
SearchEnd(node_left, node_right) ==
  IF node_left # node_right
  THEN [exit |-> TRUE, value |-> -1]
  ELSE [exit |-> FALSE, value |-> node_left]

RECURSIVE SearchLoop(_, _, _, _, _, _)
SearchLoop(ix, S, off, i, node_left, node_right) ==
  IF i < ix.k
  THEN LET r == SearchIter(ix, S, off, i, node_left, node_right)
       IN  IF r.returned
           THEN [exit |-> FALSE, value |-> -1]
           ELSE SearchLoop(ix, S, off, i + 1, r.node_left, r.node_right)
  ELSE SearchEnd(node_left, node_right)

\* the whole call: [exit |-> the process exited, value |-> the value returned]
search(ix, S, off) == SearchLoop(ix, S, off, 0, 0, ix.n_nodes - 1)

(***************************************************************************)
(* streaming_search(const char* input, int64_t len).                       *)
(***************************************************************************)
has_streaming_query_support(ix) == Len(ix.suffix_group_starts) > 0

\* while(suffix_group_starts[column] == 0) column--;  a read left of the
\* vector's first bit is reported as column -1
\* a slip: "if" for "while", one step left at most
WalkToGroupStart_Once(sg, column) ==
  IF column < 0 THEN -1
  ELSE IF sg[column + 1] = 0 THEN column - 1
  ELSE column

RECURSIVE WalkToGroupStart(_, _)
WalkToGroupStart(sg, column) ==
  IF column < 0 THEN -1
  ELSE IF sg[column + 1] = 0 THEN WalkToGroupStart(sg, column - 1)
  ELSE column

\* the offset of the first k-mer searched
FirstKmerStart(ix, len) == IF ix.colex THEN 0 ELSE len - ix.k

\* the offset of the k-mer searched from scratch in iteration i
ScratchStart(ix, len, i) ==
  FirstKmerStart(ix, len) + (IF ix.colex THEN i ELSE -i)

\* the character read in iteration i (0-based index in input)
ForwardIndex(ix, len, i) == IF ix.colex THEN i + ix.k - 1 ELSE len - ix.k - i

\* the else branch of the loop body: one search iteration from the start of
\* the suffix group of the previous answer; the value pushed
StreamExtend(ix, input, len, i, column) ==
  LET c == toupper(input[ForwardIndex(ix, len, i) + 1])
      char_idx == search_char_idx(c)
  IN  IF char_idx = -1 THEN -1
      ELSE LET nl == ix.C[char_idx + 1] + rank(ix.subset_rank, column, c)
               nr == ix.C[char_idx + 1] + rank(ix.subset_rank, column + 1, c) - 1
           IN  IF nl = nr THEN nl ELSE -1

\* one iteration of the loop: the answers after it, whether search exited
\* the process, and whether the walk read outside the vector
StreamIter(ix, input, len, i, ans) ==
  IF ans[Len(ans)] = -1
  THEN LET r == search(ix, input, ScratchStart(ix, len, i))
       IN  [ans |-> Append(ans, r.value), exit |-> r.exit, oob |-> FALSE, column |-> -1]
  ELSE LET column == WalkToGroupStart(ix.suffix_group_starts, ans[Len(ans)])
       IN  IF column < 0
           THEN [ans |-> ans, exit |-> FALSE, oob |-> TRUE, column |-> column]
           ELSE [ans |-> Append(ans, StreamExtend(ix, input, len, i, column)),
                 exit |-> FALSE, oob |-> FALSE, column |-> column]

\* if(!colex) std::reverse(ans.begin(), ans.end());
\* a slip: the answers of a lex index left in the order they were found
StreamResult_NoReverse(ix, ans) == ans

StreamResult(ix, ans) == IF ix.colex THEN ans ELSE Rev(ans)

\* the condition of the loop: i < len - k + 1
\* a slip: the last window left out
StreamLoopCond_OffByOne(ix, len, i) == i < len - ix.k

StreamLoopCond(ix, len, i) == i < len - ix.k + 1

RECURSIVE StreamLoop(_, _, _, _, _)
StreamLoop(ix, input, len, i, ans) ==
  IF StreamLoopCond(ix, len, i)
  THEN LET r == StreamIter(ix, input, len, i, ans)
       IN  IF r.exit \/ r.oob THEN <<"aborted">>
           ELSE StreamLoop(ix, input, len, i + 1, r.ans)
  ELSE StreamResult(ix, ans)

\* the whole call on an index with streaming support and len >= k, when
\* no search exits the process
streaming_search(ix, input) ==
  LET len == Len(input)
      r == search(ix, input, FirstKmerStart(ix, len))
  IN  IF r.exit THEN <<"aborted">>
      ELSE StreamLoop(ix, input, len, 1, <<r.value>>)

(***************************************************************************)
(* serialize(ostream&) and load(istream&).  The stream is the sequence of  *)
(* the blocks written, in the order written; an int64_t is written as its  *)
(* value, the vector C as its byte count and its entries, the colex flag   *)
(* as a char 0 or 1.                                                       *)
(***************************************************************************)
serialize_std_vector(v) == <<8 * Len(v)>> \o v

load_std_vector(blocks) == SubSeq(blocks, 2, 1 + (blocks[1] \div 8))

serialize(ix) ==
  <<ix.subset_rank, ix.suffix_group_starts>>
    \o serialize_std_vector(ix.C)
    \o <<ix.n_nodes, ix.k, IF ix.colex THEN 1 ELSE 0>>

\* load into the object self: the members the stream holds are overwritten
load(self, is) ==
  LET C == load_std_vector(SubSeq(is, 3, Len(is)))
      rest == SubSeq(is, 3 + 1 + Len(C), Len(is))
  IN  [self EXCEPT !.subset_rank = is[1],
                   !.suffix_group_starts = is[2],
                   !.C = C,
                   !.n_nodes = rest[1],
                   !.k = rest[2],
                   !.colex = (rest[3] # 0)]

(***************************************************************************)
(* The indexes of the model: every set of at most MaxKmers k-mers for the  *)
(* k of SmallK, the six 3-mers of the documented scenario and three        *)
(* 2-mers that make a suffix group of three columns, each built            *)
(* in colex and in lex order with streaming support.  Without it           *)
(* streaming_search throws before it reads anything, and search never      *)
(* reads it: the indexes built without are those over at most one k-mer.   *)
(***************************************************************************)
ScenarioKmers ==
  {<<"A", "A", "A">>, <<"A", "A", "C">>, <<"A", "C", "G">>,
   <<"C", "G", "T">>, <<"G", "T", "A">>, <<"T", "A", "A">>}

ScenarioInput == <<"A", "A", "C", "G", "T", "A", "A">>

SmallSets(k) ==
  {[k |-> k, K |-> S] :
     S \in {T \in SUBSET Strings(DNASet, k) : Cardinality(T) <= MaxKmers}}

\* three 2-mers that share their 1-suffix: a suffix group of three columns
WideGroupKmers == {<<"A", "A">>, <<"C", "A">>, <<"G", "A">>}

KmerSets ==
  UNION {SmallSets(k) : k \in SmallK}
    \cup {[k |-> 3, K |-> ScenarioKmers], [k |-> 2, K |-> WideGroupKmers]}

\* the scenario's input with a character that is no nucleotide, and with a
\* lower-case letter
ScenarioVariants ==
  {<<"A", "A", "C", "N", "T", "A", "A">>, <<"A", "A", "C", "g", "T", "A", "A">>}

\* the inputs of streaming_search
StreamInputs ==
  StringsUpTo(InputChars, MaxLen) \cup {ScenarioInput} \cup ScenarioVariants

(***************************************************************************)
(* State.                                                                  *)
(***************************************************************************)
VARIABLES
  kmers,       \* the k-mer set the indexes were built over
  idx,         \* the index the calls are made on
  twin,        \* the index over the same k-mers in the other order
  os,          \* the stream serialize wrote (empty: none)
  loaded,      \* the index object load reads the stream into
  call,        \* the member function running or last run
  pc,          \* where that call is
  arg,         \* the string the call was given
  i,           \* the loop counter of the call
  node_left,   \* search: node_left
  node_right,  \* search: node_right
  rank_syms,   \* search: the symbols handed to subset_rank.rank so far
  ans,         \* streaming_search: ans
  column,      \* streaming_search: column after the last walk (-1: none)
  result       \* <<the value returned>> (empty: none)

vars == <<kmers, idx, twin, os, loaded, call, pc, arg, i, node_left,
          node_right, rank_syms, ans, column, result>>

index_vars == <<kmers, idx, twin>>
serial_vars == <<os, loaded>>
call_vars == <<arg, i, node_left, node_right, rank_syms, ans, column, result>>

Init ==
  /\ \E ks \in KmerSets, colex \in BOOLEAN, support \in BOOLEAN :
       /\ support \/ Cardinality(ks.K) <= 1
       /\ kmers = ks.K
       /\ idx = Build(ks.K, ks.k, colex, support)
       /\ twin = Build(ks.K, ks.k, ~colex, support)
  /\ os = <<>>
  /\ loaded = SBWT_default
  /\ call = "none"
  /\ pc = "idle"
  /\ arg = <<>>
  /\ i = 0
  /\ node_left = 0
  /\ node_right = 0
  /\ rank_syms = {}
  /\ ans = <<>>
  /\ column = -1
  /\ result = <<>>

(***************************************************************************)
(* search(const string& kmer), kmer.size() == k.                           *)
(***************************************************************************)
SearchCall ==
  /\ pc = "idle"
  /\ \E kmer \in Strings(InputChars, idx.k) : arg' = kmer
  /\ call' = "search"
  /\ pc' = "search"
  /\ i' = 0
  /\ node_left' = 0
  /\ node_right' = idx.n_nodes - 1
  /\ rank_syms' = {}
  /\ UNCHANGED <<ans, column, result, index_vars, serial_vars>>

SearchStep ==
  /\ pc = "search"
  /\ i < idx.k
  /\ LET r == SearchIter(idx, arg, 0, i, node_left, node_right)
     IN  /\ node_left' = r.node_left
         /\ node_right' = r.node_right
         /\ rank_syms' = rank_syms \cup {r.rank_c[j] : j \in 1..Len(r.rank_c)}
         /\ IF r.returned
            THEN /\ pc' = "returned"
                 /\ result' = <<-1>>
                 /\ i' = i
            ELSE /\ pc' = "search"
                 /\ result' = result
                 /\ i' = i + 1
  /\ UNCHANGED <<call, arg, ans, column, index_vars, serial_vars>>

SearchFinish ==
  /\ pc = "search"
  /\ i >= idx.k
  /\ LET r == SearchEnd(node_left, node_right)
     IN  IF r.exit
         THEN /\ pc' = "exit"
              /\ result' = result
         ELSE /\ pc' = "returned"
              /\ result' = <<r.value>>
  /\ UNCHANGED <<call, arg, i, node_left, node_right, rank_syms, ans, column,
                 index_vars, serial_vars>>

(***************************************************************************)
(* streaming_search(const string& input).                                  *)
(***************************************************************************)
StreamCall ==
  /\ pc = "idle"
  /\ \E input \in StreamInputs : arg' = input
  /\ call' = "streaming_search"
  /\ IF ~has_streaming_query_support(idx)
     THEN /\ pc' = "thrown"
          /\ UNCHANGED <<ans, i, result>>
     ELSE IF Len(arg') < idx.k
     THEN /\ pc' = "returned"
          /\ result' = <<ans>>
          /\ UNCHANGED <<ans, i>>
     ELSE LET r == search(idx, arg', FirstKmerStart(idx, Len(arg')))
          IN  /\ pc' = IF r.exit THEN "exit" ELSE "stream"
              /\ ans' = IF r.exit THEN ans ELSE <<r.value>>
              /\ i' = 1
              /\ UNCHANGED result
  /\ UNCHANGED <<node_left, node_right, rank_syms, column, index_vars, serial_vars>>

StreamStep ==
  /\ pc = "stream"
  /\ StreamLoopCond(idx, Len(arg), i)
  /\ LET r == StreamIter(idx, arg, Len(arg), i, ans)
     IN  /\ ans' = r.ans
         /\ column' = r.column
         /\ pc' = IF r.exit THEN "exit" ELSE IF r.oob THEN "undefined" ELSE "stream"
         /\ i' = IF r.exit \/ r.oob THEN i ELSE i + 1
  /\ UNCHANGED <<call, arg, node_left, node_right, rank_syms, result,
                 index_vars, serial_vars>>

StreamFinish ==
  /\ pc = "stream"
  /\ ~StreamLoopCond(idx, Len(arg), i)
  /\ pc' = "returned"
  /\ ans' = StreamResult(idx, ans)
  /\ result' = <<ans'>>
  /\ UNCHANGED <<call, arg, i, node_left, node_right, rank_syms, column,
                 index_vars, serial_vars>>

(***************************************************************************)
(* serialize(ostream&) of the index, then load(istream&) of what was       *)
(* written into a default-constructed index.                               *)
(***************************************************************************)
Serialize ==
  /\ pc = "idle"
  /\ call' = "serialize"
  /\ pc' = "returned"
  /\ os' = serialize(idx)
  /\ UNCHANGED <<loaded, call_vars, index_vars>>

Load ==
  /\ call = "serialize"
  /\ pc = "returned"
  /\ call' = "load"
  /\ loaded' = load(loaded, os)
  /\ UNCHANGED <<os, pc, call_vars, index_vars>>

\* the caller takes the result (or catches the exception) and goes on; the
\* stream and the loaded index of a round trip go out of scope
Return ==
  /\ pc \in {"returned", "thrown"}
  /\ call' = "none"
  /\ pc' = "idle"
  /\ os' = <<>>
  /\ loaded' = SBWT_default
  /\ arg' = <<>>
  /\ i' = 0
  /\ node_left' = 0
  /\ node_right' = 0
  /\ rank_syms' = {}
  /\ ans' = <<>>
  /\ column' = -1
  /\ result' = <<>>
  /\ UNCHANGED index_vars

Next ==
  \/ SearchCall
  \/ SearchStep
  \/ SearchFinish
  \/ StreamCall
  \/ StreamStep
  \/ StreamFinish
  \/ Serialize
  \/ Load
  \/ Return

Spec == Init /\ [][Next]_vars

(***************************************************************************)
(* Vocabulary of the properties.                                           *)
(***************************************************************************)
\* the length-k substring of s that starts at position p (0-based)
Window(s, p, k) == SubSeq(s, p + 1, p + k)

WindowStarts(s, k) == 0..(Len(s) - k)

OnlyDNA(s) == \A j \in 1..Len(s) : s[j] \in DNASet

\* a character outside A/C/G/T in either case
HasInvalid(s) == \E j \in 1..Len(s) : toupper(s[j]) \notin DNASet

HasLower(s) == \E j \in 1..Len(s) : toupper(s[j]) # s[j]

SearchReturned == call = "search" /\ pc = "returned"

StreamReturned == call = "streaming_search" /\ pc = "returned"

\* the accessors of an index
Accessors(ix) ==
  [is_colex |-> ix.colex,
   get_subset_rank_structure |-> ix.subset_rank,
   get_streaming_support |-> ix.suffix_group_starts,
   get_C_array |-> ix.C,
   number_of_subsets |-> ix.n_nodes,
   number_of_kmers |-> ix.n_kmers,
   get_k |-> ix.k]

TotalRank(ix, c) == rank(ix.subset_rank, ix.n_nodes, c)

(***************************************************************************)
(* C1.  Streaming equivalence: for every input s with len >= k,            *)
(* streaming_search(s)[p] = search(window_p(s)) for every p in 0..len-k.   *)
(* Fails on the code for an input with a lower-case letter (see C6).       *)
(***************************************************************************)
C1_StreamingEquivalence ==
  (StreamReturned /\ Len(arg) >= idx.k) =>
    /\ Len(ans) = Len(arg) - idx.k + 1
    /\ \A p \in WindowStarts(arg, idx.k) :
         ans[p + 1] = search(idx, Window(arg, p, idx.k), 0).value

\* the same on the inputs without a lower-case letter, where it holds
StreamingEquivalenceOnUpperCase ==
  (StreamReturned /\ Len(arg) >= idx.k /\ ~HasLower(arg)) =>
    /\ Len(ans) = Len(arg) - idx.k + 1
    /\ \A p \in WindowStarts(arg, idx.k) :
         ans[p + 1] = search(idx, Window(arg, p, idx.k), 0).value

(***************************************************************************)
(* C2.  Serialization round trip: the index loaded from the bytes          *)
(* serialize wrote has the accessors of the index written, and answers     *)
(* every query alike.  Fails on the code: n_kmers is neither written nor   *)
(* read.                                                                   *)
(***************************************************************************)
C2_RoundTrip ==
  call = "load" =>
    /\ Accessors(loaded) = Accessors(idx)
    /\ \A kmer \in Strings(InputChars, idx.k) :
         search(loaded, kmer, 0) = search(idx, kmer, 0)

C4_SearchDecidesMembership ==
  (SearchReturned /\ OnlyDNA(arg)) =>
    IF arg \in kmers
    THEN /\ result[1] \in 0..(idx.n_nodes - 1)
         /\ result[1] = BuiltColumn(kmers, idx.k, idx.colex, arg)
         /\ \A o \in kmers \ {arg} : search(idx, o, 0).value # result[1]
    ELSE result[1] = -1

C4_Witness ==
  /\ SearchReturned
  /\ arg \in kmers
  /\ Cardinality(kmers) >= 2
  /\ idx.n_nodes > Cardinality(kmers) + 1
  /\ result[1] >= 1

(***************************************************************************)
(* C5.  Invalid characters are resolved locally: search of a string with a *)
(* character outside A/C/G/T (in either case) returns -1; in               *)
(* streaming_search every window with such a character yields -1, the      *)
(* windows of A, C, G, T alone get the answer of search, the call neither  *)
(* exits the process nor throws on an index with streaming support.        *)
(***************************************************************************)
C5_InvalidCharacterLocal ==
  /\ (SearchReturned /\ HasInvalid(arg)) => result = <<-1>>
  /\ (call \in {"search", "streaming_search"} /\ HasInvalid(arg)) =>
       /\ pc \notin {"exit", "undefined"}
       /\ pc = "thrown" => ~has_streaming_query_support(idx)
  /\ (StreamReturned /\ Len(arg) >= idx.k /\ HasInvalid(arg)) =>
       /\ Len(ans) = Len(arg) - idx.k + 1
       /\ \A p \in WindowStarts(arg, idx.k) :
            LET w == Window(arg, p, idx.k)
            IN  /\ HasInvalid(w) => ans[p + 1] = -1
                /\ OnlyDNA(w) => ans[p + 1] = search(idx, w, 0).value

C5_Witness ==
  /\ StreamReturned
  /\ \E p, q \in WindowStarts(arg, idx.k) :
       /\ p < q
       /\ ans[p + 1] >= 0
       /\ HasInvalid(Window(arg, q, idx.k))
       /\ ans[q + 1] = -1

(***************************************************************************)
(* C6.  Queries are case-insensitive: search(s) = search(upper(s)), and    *)
(* the symbol handed to rank is the upper-cased character, one of A, C, G, *)
(* T.  Fails on the code: rank is handed the character as given.           *)
(***************************************************************************)
C6_CaseInsensitive ==
  /\ call = "search" => rank_syms \subseteq DNASet
  /\ SearchReturned => result[1] = search(idx, Upper(arg), 0).value

(***************************************************************************)
(* C7.  Output length of streaming_search on an index with streaming       *)
(* support: len - k + 1 entries when len >= k; when len < k the call       *)
(* returns the empty sequence and is no error.                             *)
(***************************************************************************)
C7_StreamingOutputLength ==
  (call = "streaming_search" /\ has_streaming_query_support(idx)) =>
    /\ pc \notin {"thrown", "exit", "undefined"}
    /\ Len(arg) < idx.k => (pc = "returned" /\ result = <<(<<>>)>>)
    /\ (pc = "returned" /\ Len(arg) >= idx.k) =>
         Len(result[1]) = Len(arg) - idx.k + 1

C7_Witness ==
  /\ StreamReturned
  /\ has_streaming_query_support(idx)
  /\ Len(arg) = idx.k - 1
  /\ result = <<(<<>>)>>

(***************************************************************************)
(* C8.  C-array consistency, as claimed: after construction and after      *)
(* load, C has 4 entries, C[0] = 1, C[c+1] - C[c] is the number of 1-bits  *)
(* of character c, C is non-decreasing and C[3] + total_rank('T') = N + 1. *)
(***************************************************************************)
CArrayLaw(ix, total) ==
  /\ Len(ix.C) = 4
  /\ ix.C[1] = 1
  /\ \A c \in 1..3 : ix.C[c + 1] - ix.C[c] = TotalRank(ix, DNA[c])
  /\ \A c \in 1..3 : ix.C[c] <= ix.C[c + 1]
  /\ ix.C[4] + TotalRank(ix, "T") = total

C8_CArrayConsistency ==
  /\ CArrayLaw(idx, idx.n_nodes + 1)
  /\ call = "load" => CArrayLaw(loaded, loaded.n_nodes + 1)

(***************************************************************************)
(* C8, amended.  The same with C[3] + total_rank('T') = N: the ghost       *)
(* dollar of C[0] stands for the root column, and every other column is    *)
(* entered by exactly one 1-bit.                                           *)
(***************************************************************************)
C8_CArrayConsistencyAmended ==
  /\ CArrayLaw(idx, idx.n_nodes)
  /\ call = "load" => CArrayLaw(loaded, loaded.n_nodes)

C8_Witness ==
  /\ call = "load"
  /\ loaded.n_nodes >= 4
  /\ loaded.C[1] < loaded.C[2]
  /\ loaded.C[2] < loaded.C[3]
  /\ TotalRank(loaded, "T") > 0

(***************************************************************************)
(* C9.  Suffix-group anchor: an index with streaming support has N marks   *)
(* and the first is 1; the leftward walk of streaming_search reads only    *)
(* marks in [0, N) and stops at the first column of the suffix group of    *)
(* the previous answer.                                                    *)
(***************************************************************************)
C9_SuffixGroupAnchor ==
  has_streaming_query_support(idx) =>
    /\ Len(idx.suffix_group_starts) = idx.n_nodes
    /\ idx.suffix_group_starts[1] = 1
    /\ pc # "undefined"
    /\ (call = "streaming_search" /\ column # -1) =>
         /\ column \in 0..(idx.n_nodes - 1)
         /\ idx.suffix_group_starts[column + 1] = 1

C9_Witness ==
  /\ call = "streaming_search"
  /\ pc = "stream"
  /\ Len(ans) >= 2
  /\ column >= 0
  /\ column <= ans[Len(ans) - 1] - 2
  /\ ans[Len(ans)] >= 0

(***************************************************************************)
(* C10.  The search state machine resolves to a single column: for a       *)
(* string of k characters of A, C, G, T the range stays within [0, N-1]    *)
(* while it is non-empty, the loop either returns -1 with                  *)
(* node_left > node_right or ends after k steps with                       *)
(* node_left = node_right, and the exit on node_left != node_right is      *)
(* never taken.                                                            *)
(***************************************************************************)
C10_SearchResolves ==
  (call = "search" /\ OnlyDNA(arg)) =>
    /\ pc # "exit"
    /\ pc = "search" =>
         /\ 0 <= node_left
         /\ node_left <= node_right
         /\ node_right <= idx.n_nodes - 1
    /\ pc = "returned" =>
         \/ /\ i < idx.k
            /\ node_left > node_right
            /\ result = <<-1>>
         \/ /\ i = idx.k
            /\ node_left = node_right
            /\ node_left \in 0..(idx.n_nodes - 1)
            /\ result = <<node_left>>

C10_Witness ==
  /\ call = "search"
  /\ pc = "returned"
  /\ OnlyDNA(arg)
  /\ i = idx.k
  /\ idx.k = 3
  /\ result = <<node_left>>

=============================================================================
